---------------------------- MODULE Spec2Model ----------------------------
(***************************************************************************)
(* A model of persian_writer: the text analyser (analysis.py), its report  *)
(* formatter, and the chapter scaffolding of BookProject (book.py).        *)
(*                                                                         *)
(* A text is a sequence of characters, each character a one-element        *)
(* string.  Characters outside ASCII are written by code point: "U+061F"   *)
(* is the Arabic question mark, "U+FF01" the full-width exclamation mark,  *)
(* "U+200C" the zero-width non-joiner, "U+060C" the Arabic comma and       *)
(* "U+061B" the Arabic semicolon.  A fixed Persian message of the source   *)
(* is one opaque character named in capitals (it holds no line break).     *)
(***************************************************************************)
EXTENDS Integers, Sequences, FiniteSets, TLC

VARIABLES text, pc, metrics, report, edits, chapters, files

vars == <<text, pc, metrics, report, edits, chapters, files>>

-----------------------------------------------------------------------------
(* Bounds of the model.                                                    *)

\* characters typed into a text, one key at a time
MaxChars == 4
\* snippets pasted into a draft
MaxSnippets == 3
\* add-chapter commands run on one project
MaxAdds == 3

-----------------------------------------------------------------------------
(* Character classes of Python's str and re.                               *)

\* str.isspace / the regex class \s, on the characters of the model
Whitespace == {" ", "\n", "\t", "\r"}

\* the regex class \w under re.UNICODE, on the characters of the model
WordChars == {"a", "A", "b", "0", "1", "2", "3", "4", "5", "6", "7", "8", "9"}

\* every character of the model
Chars ==
  Whitespace \cup WordChars
    \cup {".", "!", "?", ",", ";", "-", "U+061F", "U+FF01", "U+200C", "U+060C", "U+061B"}

IsSpace(c) == c \in Whitespace

IsWord(c) == c \in WordChars

\* SENTENCE_ENDINGS = re.compile(r"[\.؟!！!]")
SENTENCE_ENDINGS == {".", "U+061F", "!", "U+FF01"}

\* the threshold of "len(s.split()) > 30"
LONG_SENTENCE_TOKENS == 30

Min(S) == CHOOSE x \in S : \A y \in S : x <= y

Max(S) == CHOOSE x \in S : \A y \in S : x >= y

-----------------------------------------------------------------------------
(* String operations.                                                      *)

\* str.strip(): leading and trailing whitespace removed
strip(s) ==
  LET keep == {i \in 1..Len(s) : ~IsSpace(s[i])}
  IN  IF keep = {} THEN <<>> ELSE SubSeq(s, Min(keep), Max(keep))

\* The loops of str.split, Pattern.split and Pattern.finditer go over the
\* positions of the string once, from the left, with a state st:
\*   pieces  what was cut off so far (the pieces of a split, or the
\*           <<first, last>> positions of the matches found),
\*   start   where the current piece begins,
\*   resume  the first position after the last match.

\* the end of the greedy run of characters of class that starts at i
run_end(s, class, i) ==
  LET stop == {j \in i..Len(s) : s[j] \notin class}
  IN  IF stop = {} THEN Len(s) ELSE Min(stop) - 1

\* str.split(sep), sep non-empty: a separator found at i (not inside the
\* one before) ends the piece and is skipped
str_split_step(s, sep, st, i) ==
  IF i >= st.resume /\ i + Len(sep) - 1 <= Len(s) /\ SubSeq(s, i, i + Len(sep) - 1) = sep
    THEN [pieces |-> Append(st.pieces, SubSeq(s, st.start, i - 1)),
          start  |-> i + Len(sep),
          resume |-> i + Len(sep)]
    ELSE st

\* Pattern.split of a one-character class: every character of the class
\* ends the piece and is dropped; empty pieces are kept
re_split_step(s, class, st, i) ==
  IF s[i] \in class
    THEN [pieces |-> Append(st.pieces, SubSeq(s, st.start, i - 1)),
          start  |-> i + 1,
          resume |-> i + 1]
    ELSE st

\* Pattern.finditer of class{least,}: the pattern is tried at every position
\* not inside the match before; a match is greedy
re_match_step(s, pat, st, i) ==
  IF i >= st.resume /\ s[i] \in pat.class /\ run_end(s, pat.class, i) - i + 1 >= pat.least
    THEN [pieces |-> Append(st.pieces, <<i, run_end(s, pat.class, i)>>),
          start  |-> st.start,
          resume |-> run_end(s, pat.class, i) + 1]
    ELSE st

scan_step(op, s, arg, st, i) ==
  CASE op = "str.split"   -> str_split_step(s, arg, st, i)
    [] op = "re.split"    -> re_split_step(s, arg, st, i)
    [] op = "re.finditer" -> re_match_step(s, arg, st, i)

\* "for i in lo..hi: st = scan_step(st, i)".  The range is halved so that the
\* evaluation stays shallow; the steps are taken in the order lo, .., hi, the
\* state after the first half being computed (by the test of its resume
\* position, which is always positive) before the second half starts.
RECURSIVE scan(_, _, _, _, _, _)
scan(op, s, arg, st, lo, hi) ==
  IF lo > hi THEN st
  ELSE IF lo = hi THEN scan_step(op, s, arg, st, lo)
  ELSE LET half == scan(op, s, arg, st, lo, (lo + hi) \div 2)
       IN  IF half.resume > 0
             THEN scan(op, s, arg, half, ((lo + hi) \div 2) + 1, hi)
             ELSE half

ScanStart == [pieces |-> <<>>, start |-> 1, resume |-> 1]

str_split(s, sep) ==
  LET st == scan("str.split", s, sep, ScanStart, 1, Len(s))
  IN  Append(st.pieces, SubSeq(s, st.start, Len(s)))

re_split(s, class) ==
  LET st == scan("re.split", s, class, ScanStart, 1, Len(s))
  IN  Append(st.pieces, SubSeq(s, st.start, Len(s)))

\* the <<first, last>> positions of the matches of class{least,}
re_runs(s, class, least) ==
  scan("re.finditer", s, [class |-> class, least |-> least], ScanStart, 1, Len(s)).pieces

\* the matched strings, m.group(0) of every match
groups(s, spans) == [k \in 1..Len(spans) |-> SubSeq(s, spans[k][1], spans[k][2])]

\* str.split() without a separator: the maximal runs of non-whitespace
split_ws(s) == groups(s, re_runs(s, Chars \ Whitespace, 1))

\* "pat in s"
contains(s, pat) ==
  \E i \in 1..(Len(s) - Len(pat) + 1) : SubSeq(s, i, i + Len(pat) - 1) = pat

-----------------------------------------------------------------------------
(* analyze_text                                                            *)

NonBlank(p) == strip(p) # <<>>

\* the pieces trimmed, the blank ones kept
stripped_nonblank_unfiltered(pieces) == [k \in 1..Len(pieces) |-> strip(pieces[k])]

\* [p.strip() for p in pieces if p.strip()]
stripped_nonblank(pieces) ==
  LET kept == SelectSeq(pieces, NonBlank)
  IN  [k \in 1..Len(kept) |-> strip(kept[k])]

Paragraphs(t) == stripped_nonblank(str_split(t, <<"\n", "\n">>))

\* only the pieces that a terminator ends
Sentences_terminatedOnly(t) ==
  LET pieces == re_split(t, SENTENCE_ENDINGS)
  IN  stripped_nonblank(SubSeq(pieces, 1, Len(pieces) - 1))

Sentences(t) == stripped_nonblank(re_split(t, SENTENCE_ENDINGS))

\* re.findall(r"\w+", text, flags=re.UNICODE)
Words(t) == groups(t, re_runs(t, WordChars, 1))

\* the quotient cut after two decimals
round2_truncated(n, d) == (100 * n) \div d

\* round(n / d, 2) as a number of hundredths.  The quotient of two small
\* integers is the double nearest to n/d, and round() returns the hundredth
\* nearest to that double.  A tie (n/d an odd multiple of 0.005) needs d to
\* be a multiple of 8; with d = 8 the double is exact and the tie goes to
\* the even hundredth, as below; with d = 40 or 200 the double is not exact
\* and decides the direction (no text of this model has 8 sentences or
\* paragraphs).
round2(n, d) ==
  LET q == (100 * n) \div d
      r == (100 * n) % d
  IN  IF 2 * r < d THEN q
      ELSE IF 2 * r > d THEN q + 1
      ELSE IF q % 2 = 0 THEN q ELSE q + 1

\* "len(words) / len(xs) if xs else 0", then round(.., 2): a float, or the
\* int 0 of the else branch
average(nwords, n) ==
  IF n # 0
    THEN [float |-> TRUE, hundredths |-> round2(nwords, n)]
    ELSE [float |-> FALSE, hundredths |-> 0]

\* the threshold taken as "at least 30"
IsLong_atLeast(s) == Len(split_ws(s)) >= LONG_SENTENCE_TOKENS

IsLong(s) == Len(split_ws(s)) > LONG_SENTENCE_TOKENS

LongSentences(sentences) == SelectSeq(sentences, IsLong)

\* the runs looked for in the trimmed text
RepeatedSpaces_trimmed(t) == groups(strip(t), re_runs(strip(t), Whitespace, 2))

\* the runs of blanks only, as of the pattern " {2,}"
RepeatedSpaces_blanksOnly(t) == groups(t, re_runs(t, {" "}, 2))

\* REPEATED_SPACES = re.compile(r"\s{2,}"); [m.group(0) for m in finditer]
RepeatedSpaces(t) == groups(t, re_runs(t, Whitespace, 2))

\* the checks with the semicolon before the comma
TypographyChecks_swapped ==
  << [pattern |-> <<" ", ";">>,      alert |-> "ALERT_SPACE_BEFORE_SEMICOLON"],
     [pattern |-> <<" ", ",">>,      alert |-> "ALERT_SPACE_BEFORE_COMMA"],
     [pattern |-> <<"!", " ", "!">>, alert |-> "ALERT_DOUBLE_EXCLAMATION"],
     [pattern |-> <<"?", " ", "?">>, alert |-> "ALERT_DOUBLE_QUESTION"] >>

\* the four substring checks, in the order of the source
TypographyChecks ==
  << [pattern |-> <<" ", ",">>,      alert |-> "ALERT_SPACE_BEFORE_COMMA"],
     [pattern |-> <<" ", ";">>,      alert |-> "ALERT_SPACE_BEFORE_SEMICOLON"],
     [pattern |-> <<"!", " ", "!">>, alert |-> "ALERT_DOUBLE_EXCLAMATION"],
     [pattern |-> <<"?", " ", "?">>, alert |-> "ALERT_DOUBLE_QUESTION"] >>

TypographyAlerts(t) ==
  LET Hit(c) == contains(t, c.pattern)
      hits == SelectSeq(TypographyChecks, Hit)
  IN  [k \in 1..Len(hits) |-> hits[k].alert]

analyze_text(t) ==
  LET paragraphs == Paragraphs(t)
      sentences  == Sentences(t)
      words      == Words(t)
  IN  [ words                    |-> Len(words),
        sentences                |-> Len(sentences),
        paragraphs               |-> Len(paragraphs),
        average_sentence_length  |-> average(Len(words), Len(sentences)),
        average_paragraph_length |-> average(Len(words), Len(paragraphs)),
        long_sentences           |-> LongSentences(sentences),
        repeated_spaces          |-> RepeatedSpaces(t),
        typography_alerts        |-> TypographyAlerts(t) ]

\* the value of the metrics variable before any text was analysed
NoMetrics ==
  [ words |-> 0, sentences |-> 0, paragraphs |-> 0,
    average_sentence_length  |-> [float |-> FALSE, hundredths |-> 0],
    average_paragraph_length |-> [float |-> FALSE, hundredths |-> 0],
    long_sentences |-> <<>>, repeated_spaces |-> <<>>, typography_alerts |-> <<>> ]

-----------------------------------------------------------------------------
(* format_metrics                                                          *)

Digit == <<"0", "1", "2", "3", "4", "5", "6", "7", "8", "9">>

\* str(n) of a non-negative int
RECURSIVE str_int(_)
str_int(n) ==
  IF n < 10 THEN <<Digit[n + 1]>> ELSE str_int(n \div 10) \o <<Digit[(n % 10) + 1]>>

\* str(x) of an average: "0" for the int 0, else the shortest repr of a
\* float with at most two decimals ("16.0", "3.5", "3.33")
str_average(avg) ==
  LET h == avg.hundredths
  IN  IF ~avg.float
        THEN str_int(h)
        ELSE str_int(h \div 100) \o <<".", Digit[((h % 100) \div 10) + 1]>>
               \o (IF h % 10 = 0 THEN <<>> ELSE <<Digit[(h % 10) + 1]>>)

\* "".join(lines)
RECURSIVE join(_)
join(lines) == IF lines = <<>> THEN <<>> ELSE Head(lines) \o join(Tail(lines))

\* f"- {x}\n"
bullet(x) == <<"-", " ">> \o x \o <<"\n">>

format_metrics(m) ==
  LET head ==
        << <<"#", "#", " ", "TEXT_METRICS", "\n">>,
           <<"-", " ", "WORD_COUNT", ":", " ">> \o str_int(m.words) \o <<"\n">>,
           <<"-", " ", "SENTENCE_COUNT", ":", " ">> \o str_int(m.sentences) \o <<"\n">>,
           <<"-", " ", "PARAGRAPH_COUNT", ":", " ">> \o str_int(m.paragraphs) \o <<"\n">>,
           <<"-", " ", "AVERAGE_SENTENCE_LENGTH", ":", " ">>
              \o str_average(m.average_sentence_length) \o <<" ", "WORDS", "\n">>,
           <<"-", " ", "AVERAGE_PARAGRAPH_LENGTH", ":", " ">>
              \o str_average(m.average_paragraph_length) \o <<" ", "WORDS", "\n">>,
           <<"\n">> >>
      long ==
        IF m.long_sentences # <<>>
          THEN << <<"LONG_SENTENCES_HEADER", ":", "\n">> >>
                 \o [k \in 1..Len(m.long_sentences) |-> bullet(m.long_sentences[k])]
                 \o << <<"\n">> >>
          ELSE <<>>
      spaces ==
        IF m.repeated_spaces # <<>>
          THEN << <<"REPEATED_SPACES_WARNING", ".", "\n">> >>
          ELSE <<>>
      alerts ==
        IF m.typography_alerts # <<>>
          THEN << <<"TYPOGRAPHY_ALERTS_HEADER", ":", "\n">> >>
                 \o [k \in 1..Len(m.typography_alerts) |->
                       bullet(<<m.typography_alerts[k]>>)]
          ELSE <<>>
  IN  join(head \o long \o spaces \o alerts)

-----------------------------------------------------------------------------
(* The editing session of cmd_analyze: a file's text, then analyze_text.   *)

\* the keys of the editor
Keys == {"a", " ", "\n", ".", "!", "?", "U+061F", "U+FF01", ",", ";"}

Init ==
  /\ text = <<>>
  /\ pc = "edit"
  /\ metrics = NoMetrics
  /\ report = <<>>
  /\ edits = 0
  /\ chapters = <<>>
  /\ files = [p \in {} |-> <<>>]

TypeChar ==
  /\ pc = "edit"
  /\ edits < MaxChars
  /\ \E c \in Keys : text' = Append(text, c)
  /\ edits' = edits + 1
  /\ UNCHANGED <<pc, metrics, report, chapters, files>>

AnalyzeText ==
  /\ pc = "edit"
  /\ metrics' = analyze_text(text)
  /\ pc' = "analyzed"
  /\ UNCHANGED <<text, report, edits, chapters, files>>

FormatMetrics ==
  /\ pc = "analyzed"
  /\ report' = format_metrics(metrics)
  /\ pc' = "printed"
  /\ UNCHANGED <<text, metrics, edits, chapters, files>>

Next == TypeChar \/ AnalyzeText \/ FormatMetrics

Spec == Init /\ [][Next]_vars

-----------------------------------------------------------------------------
(* The same session on a draft put together from longer snippets.          *)

\* n words "a" separated by single spaces
words_of(n) == [i \in 1..(2 * n - 1) |-> IF i % 2 = 1 THEN "a" ELSE " "]

Snippets ==
  { words_of(8), words_of(LONG_SENTENCE_TOKENS), words_of(LONG_SENTENCE_TOKENS + 1),
    <<".", " ", "a">>, <<"\n", "-", " ", "a">>, <<"\n", "\n">>, <<" ", " ">> }

PasteSnippet ==
  /\ pc = "edit"
  /\ edits < MaxSnippets
  /\ \E s \in Snippets : text' = text \o s
  /\ edits' = edits + 1
  /\ UNCHANGED <<pc, metrics, report, chapters, files>>

NextDraft == PasteSnippet \/ AnalyzeText \/ FormatMetrics

SpecDraft == Init /\ [][NextDraft]_vars

-----------------------------------------------------------------------------
(* BookProject: add_chapter and the files it writes.                       *)

\* str.replace(old, new) of one character
replace_char(s, old, new) == [i \in 1..Len(s) |-> IF s[i] = old THEN new ELSE s[i]]

\* str.lower() on the characters of the model
lower(s) == [i \in 1..Len(s) |-> IF s[i] = "A" THEN "a" ELSE s[i]]

\* the characters of the for loop of _slugify, in its order
BAD_CHARS ==
  <<"U+200C", "\t", "\n", "\r", "U+060C", "U+061F", "U+061B", "!", "U+061B", "U+061B">>

\* "for bad in ..: normalized = normalized.replace(bad, '-')", from the k-th on
RECURSIVE replace_bad(_, _)
replace_bad(s, k) ==
  IF k > Len(BAD_CHARS) THEN s ELSE replace_bad(replace_char(s, BAD_CHARS[k], "-"), k + 1)

_slugify(title) == lower(replace_bad(replace_char(strip(title), " ", "-"), 1))

\* f"{index:02d}"
pad2(index) == IF index < 10 THEN <<"0">> \o str_int(index) ELSE str_int(index)

\* "index = len(self.chapters) + 1"
next_index(chs) == Len(chs) + 1

\* the filename without the index
chapter_filename_noIndex(index, title) == _slugify(title) \o <<".", "m", "d">>

\* f"{index:02d}-{self._slugify(title)}.md"
chapter_filename(index, title) ==
  pad2(index) \o <<"-">> \o _slugify(title) \o <<".", "m", "d">>

Chapter(title, filename, summary, goals) ==
  [title |-> title, filename |-> filename, summary |-> summary, goals |-> goals,
   draft_status |-> "not-started"]

_chapter_template(chapter) ==
  LET goals ==
        IF chapter.goals # <<>>
          THEN chapter.goals
          ELSE << <<"DEFAULT_GOAL_1">>, <<"DEFAULT_GOAL_2">>, <<"DEFAULT_GOAL_3">> >>
  IN  <<"#", " ">> \o chapter.title \o <<"\n", "\n", "SUMMARY", ":", "\n">>
        \o (IF chapter.summary # <<>>
              THEN chapter.summary \o <<"\n", "\n">>
              ELSE <<"SUMMARY_PLACEHOLDER", "\n", "\n">>)
        \o <<"CHAPTER_GOALS", ":", "\n">>
        \o join([k \in 1..Len(goals) |-> bullet(goals[k])])
        \o <<"\n", "CHAPTER_SECTIONS">>

\* Path.write_text: the file is created, or replaced when it exists
write_text(fs, path, content) ==
  [p \in (DOMAIN fs) \cup {path} |-> IF p = path THEN content ELSE fs[p]]

\* add_chapter on a project pr = [chapters, files]: the chapter is appended,
\* the list saved, the template written under chapters/
add_chapter(pr, title, summary, goals) ==
  LET chapter == Chapter(title, chapter_filename(next_index(pr.chapters), title),
                         summary, goals)
  IN  [chapters |-> Append(pr.chapters, chapter),
       files    |-> write_text(pr.files, chapter.filename, _chapter_template(chapter))]

NewProject == [chapters |-> <<>>, files |-> [p \in {} |-> <<>>]]

\* the project after add_chapter was called for the chapters lo..hi, each
\* with the title "a"; the range is halved as in scan
RECURSIVE add_chapters(_, _, _)
add_chapters(pr, lo, hi) ==
  IF lo > hi THEN pr
  ELSE IF lo = hi THEN add_chapter(pr, <<"a">>, <<>>, <<>>)
  ELSE LET half == add_chapters(pr, lo, (lo + hi) \div 2)
       IN  IF Len(half.chapters) > 0
             THEN add_chapters(half, ((lo + hi) \div 2) + 1, hi)
             ELSE half

\* how many chapters a project holds when the session starts
StartCounts == {0, 8, 98}

Titles ==
  { <<"A", " ", "b">>, <<"a", "-", "b">>, <<" ", "a", "!">>, <<"a", "U+200C", "b">> }

Summaries == { <<>>, <<"b">> }

InitBook ==
  /\ text = <<>>
  /\ pc = "edit"
  /\ metrics = NoMetrics
  /\ report = <<>>
  /\ edits = 0
  /\ \E n \in StartCounts :
       LET pr == add_chapters(NewProject, 1, n)
       IN  chapters = pr.chapters /\ files = pr.files

\* cmd_add_chapter: the project is loaded, add_chapter saves it
AddChapter ==
  /\ edits < MaxAdds
  /\ \E title \in Titles, summary \in Summaries :
       LET pr == add_chapter([chapters |-> chapters, files |-> files],
                             title, summary, <<>>)
       IN  chapters' = pr.chapters /\ files' = pr.files
  /\ edits' = edits + 1
  /\ UNCHANGED <<text, pc, metrics, report>>

NextBook == AddChapter

SpecBook == InitBook /\ [][NextBook]_vars

-----------------------------------------------------------------------------
(* Notions the properties are stated with.  They are written from the      *)
(* meaning of the words (segment, token, run, line), not from the scans.   *)

Analyzed == pc \in {"analyzed", "printed"}

\* the characters the specification lists as ASCII sentence terminators
AsciiTerminators == {".", "?", "!"}

\* position i of s is the first non-blank character of its segment, the
\* segments of s being what lies between two characters of T
FirstOfSegment(s, T, i) ==
  /\ s[i] \notin T
  /\ ~IsSpace(s[i])
  /\ \A j \in 1..(i - 1) :
       (s[j] \notin T /\ ~IsSpace(s[j])) => \E k \in (j + 1)..(i - 1) : s[k] \in T

\* the number of segments of s between characters of T that are not blank
SegmentCount(s, T) == Cardinality({i \in 1..Len(s) : FirstOfSegment(s, T, i)})

\* the number of whitespace-separated tokens of s
TokenCount(s) ==
  Cardinality({i \in 1..Len(s) : ~IsSpace(s[i]) /\ (i = 1 \/ IsSpace(s[i - 1]))})

\* the number of maximal runs of word characters of s
WordRunCount(s) ==
  Cardinality({i \in 1..Len(s) : IsWord(s[i]) /\ (i = 1 \/ ~IsWord(s[i - 1]))})

\* s[i..j] is a maximal run of whitespace
MaximalSpaceRun(s, i, j) ==
  /\ i <= j
  /\ \A k \in i..j : IsSpace(s[k])
  /\ i = 1 \/ ~IsSpace(s[i - 1])
  /\ j = Len(s) \/ ~IsSpace(s[j + 1])

\* pat occurs in s at position i
OccursAt(s, pat, i) ==
  /\ i + Len(pat) - 1 <= Len(s)
  /\ \A k \in 1..Len(pat) : s[i + k - 1] = pat[k]

Occurs(s, pat) == \E i \in 1..Len(s) : OccursAt(s, pat, i)

\* h is a hundredth nearest to n / d
NearestHundredth(h, n, d) ==
  /\ 2 * (100 * n - h * d) <= d
  /\ 2 * (h * d - 100 * n) <= d

\* the lines of a report: what lies between its line breaks
Lines(r) == str_split(r, <<"\n">>)

IsPrefix(p, s) == Len(p) <= Len(s) /\ SubSeq(s, 1, Len(p)) = p

-----------------------------------------------------------------------------
(* C1 *)

\* C1: the sentence count is the number of non-blank segments between the
\* sentence terminators, the ASCII '.', '?' and '!' among them, and no
\* sentence holds a terminator.
C1_SplitsAtAsciiTerminators ==
  Analyzed =>
    /\ metrics.sentences = SegmentCount(text, SENTENCE_ENDINGS \cup AsciiTerminators)
    /\ \A k \in 1..Len(Sentences(text)) :
         \A i \in 1..Len(Sentences(text)[k]) :
           Sentences(text)[k][i] \notin SENTENCE_ENDINGS \cup AsciiTerminators

-----------------------------------------------------------------------------
(* C2 *)

\* C2: long_sentences is the list of the sentences with more than 30
\* whitespace-separated tokens, in the order of the text: 30 tokens are not
\* enough, 31 are.
C2_LongSentencesOver30Tokens ==
  Analyzed =>
    LET Over30(s) == TokenCount(s) > 30
    IN  metrics.long_sentences = SelectSeq(Sentences(text), Over30)

\* a text with a sentence of exactly 30 tokens, left out, and one of
\* exactly 31, reported
C2_Witness ==
  /\ pc = "analyzed"
  /\ \E j, k \in 1..Len(Sentences(text)) :
       /\ TokenCount(Sentences(text)[j]) = 30
       /\ TokenCount(Sentences(text)[k]) = 31
       /\ metrics.long_sentences = <<Sentences(text)[k]>>

-----------------------------------------------------------------------------
(* C3 *)

\* C3: repeated_spaces lists the maximal runs of two or more whitespace
\* characters of the raw text, verbatim, from the left: there are positions
\* first[k]..last[k], increasing, each a maximal whitespace run of length
\* at least 2 and the k-th entry, and no such run is left out.
C3_RepeatedSpacesAreMaximalRuns ==
  Analyzed =>
    LET R == metrics.repeated_spaces
        runs == {r \in (1..Len(text)) \X (1..Len(text)) :
                   r[1] < r[2] /\ MaximalSpaceRun(text, r[1], r[2])}
        Before(r) == {q \in runs : q[1] < r[1]}
    IN  /\ Len(R) = Cardinality(runs)
        /\ \A r \in runs : R[Cardinality(Before(r)) + 1] = SubSeq(text, r[1], r[2])
        /\ \A k \in 1..Len(R) : Len(R[k]) >= 2 /\ \A i \in 1..Len(R[k]) : IsSpace(R[k][i])

\* a text with two different runs, and a single blank that is no run
C3_Witness ==
  /\ pc = "analyzed"
  /\ Len(metrics.repeated_spaces) = 2
  /\ metrics.repeated_spaces[1] # metrics.repeated_spaces[2]
  /\ \E i \in 1..Len(text) : MaximalSpaceRun(text, i, i)

-----------------------------------------------------------------------------
(* C4 *)

AlertOrder ==
  << "ALERT_SPACE_BEFORE_COMMA", "ALERT_SPACE_BEFORE_SEMICOLON",
     "ALERT_DOUBLE_EXCLAMATION", "ALERT_DOUBLE_QUESTION" >>

AlertRank(a) == CHOOSE k \in 1..Len(AlertOrder) : AlertOrder[k] = a

\* C4: an alert is listed exactly when its substring occurs in the raw text,
\* once however often it occurs, and the alerts come in the order comma,
\* semicolon, exclamation, question.
C4_TypographyAlerts ==
  Analyzed =>
    LET A == metrics.typography_alerts
        Listed(a) == \E k \in 1..Len(A) : A[k] = a
    IN  /\ Listed("ALERT_SPACE_BEFORE_COMMA") <=> Occurs(text, <<" ", ",">>)
        /\ Listed("ALERT_SPACE_BEFORE_SEMICOLON") <=> Occurs(text, <<" ", ";">>)
        /\ Listed("ALERT_DOUBLE_EXCLAMATION") <=> Occurs(text, <<"!", " ", "!">>)
        /\ Listed("ALERT_DOUBLE_QUESTION") <=> Occurs(text, <<"?", " ", "?">>)
        /\ \A k \in 1..Len(A) : \E r \in 1..Len(AlertOrder) : AlertOrder[r] = A[k]
        /\ \A j, k \in 1..Len(A) : j < k => AlertRank(A[j]) < AlertRank(A[k])

\* a pattern that occurs twice, reported once
C4_Witness ==
  /\ pc = "analyzed"
  /\ \E i, j \in 1..Len(text) :
       i < j /\ OccursAt(text, <<" ", ",">>, i) /\ OccursAt(text, <<" ", ",">>, j)
  /\ metrics.typography_alerts = <<"ALERT_SPACE_BEFORE_COMMA">>

-----------------------------------------------------------------------------
(* C5 *)

\* C5: without sentences the average sentence length is 0, without
\* paragraphs the average paragraph length is 0 (nothing is divided by 0),
\* and the empty text has every count and average 0 and every list empty.
C5_ZeroDenominators ==
  Analyzed =>
    /\ metrics.sentences = 0 => metrics.average_sentence_length.hundredths = 0
    /\ metrics.paragraphs = 0 => metrics.average_paragraph_length.hundredths = 0
    /\ text = <<>> =>
         /\ metrics.words = 0 /\ metrics.sentences = 0 /\ metrics.paragraphs = 0
         /\ metrics.average_sentence_length.hundredths = 0
         /\ metrics.average_paragraph_length.hundredths = 0
         /\ metrics.long_sentences = <<>>
         /\ metrics.repeated_spaces = <<>>
         /\ metrics.typography_alerts = <<>>

\* the empty text, analysed
C5_Witness == pc = "analyzed" /\ text = <<>> /\ metrics.sentences = 0

-----------------------------------------------------------------------------
(* C6 *)

LongHeader == <<"LONG_SENTENCES_HEADER", ":">>

\* C6: the report holds the long-sentences header exactly when there are long
\* sentences, and the header is followed by one bullet line per long
\* sentence, in order, and nothing else before the empty line that ends
\* the section.
C6_OneBulletLinePerLongSentence ==
  pc = "printed" =>
    LET L == Lines(report)
        n == Len(metrics.long_sentences)
        H == {h \in 1..Len(L) : L[h] = LongHeader}
    IN  /\ H # {} <=> n > 0
        /\ \A h \in H :
             /\ h + n + 1 <= Len(L)
             /\ \A k \in 1..n : L[h + k] = <<"-", " ">> \o metrics.long_sentences[k]
             /\ L[h + n + 1] = <<>>

-----------------------------------------------------------------------------
(* C7 *)

\* C7: word_count is the number of maximal runs of word characters; with a
\* sentence (a paragraph) the average is word_count / sentence_count
\* (/ paragraph_count) rounded to the nearest hundredth.
C7_AveragesRoundedToHundredths ==
  Analyzed =>
    /\ metrics.words = WordRunCount(text)
    /\ metrics.sentences > 0 =>
         /\ metrics.average_sentence_length.float
         /\ NearestHundredth(metrics.average_sentence_length.hundredths,
                             metrics.words, metrics.sentences)
    /\ metrics.paragraphs > 0 =>
         /\ metrics.average_paragraph_length.float
         /\ NearestHundredth(metrics.average_paragraph_length.hundredths,
                             metrics.words, metrics.paragraphs)

\* 10 words in 3 sentences: 3.33
C7_Witness ==
  /\ pc = "analyzed"
  /\ metrics.words = 10
  /\ metrics.sentences = 3
  /\ metrics.average_sentence_length.hundredths = 333

-----------------------------------------------------------------------------
(* C8 *)

SpacesWarning == <<"REPEATED_SPACES_WARNING", ".">>

\* C8: a text of two or more paragraphs has a non-empty repeated_spaces, and
\* its report holds the repeated-spaces warning line.
C8_ParagraphBreakIsRepeatedSpace ==
  (Analyzed /\ metrics.paragraphs >= 2) =>
    /\ metrics.repeated_spaces # <<>>
    /\ pc = "printed" => \E i \in 1..Len(Lines(report)) : Lines(report)[i] = SpacesWarning

\* two paragraphs, neither with a doubled blank inside, and the warning
C8_Witness ==
  /\ pc = "printed"
  /\ metrics.paragraphs = 2
  /\ \A k \in 1..2 : \A i \in 1..Len(Paragraphs(text)[k]) : ~IsSpace(Paragraphs(text)[k][i])
  /\ \E i \in 1..Len(Lines(report)) : Lines(report)[i] = SpacesWarning

-----------------------------------------------------------------------------
(* C9 *)

\* C9: a text with a word has at least one sentence and one paragraph, so an
\* average takes its zero-denominator branch only when word_count is 0.
C9_WordsImplySentenceAndParagraph ==
  Analyzed =>
    /\ metrics.words > 0 => (metrics.sentences >= 1 /\ metrics.paragraphs >= 1)
    /\ ~metrics.average_sentence_length.float => metrics.words = 0
    /\ ~metrics.average_paragraph_length.float => metrics.words = 0

\* a text with words; its words are cut by a terminator and lie behind blanks
C9_Witness ==
  /\ pc = "analyzed"
  /\ metrics.words >= 2
  /\ metrics.sentences >= 2
  /\ metrics.paragraphs >= 1
  /\ IsSpace(text[1])

\* the converse fails: sentences and paragraphs without a word
C9_ConverseFails ==
  /\ pc = "analyzed"
  /\ metrics.words = 0
  /\ metrics.sentences >= 1
  /\ metrics.paragraphs >= 1

-----------------------------------------------------------------------------
(* C10 *)

\* the k-th chapter's filename starts with k in at least two digits and "-",
\* the filenames are pairwise distinct, and every chapter's template is in
\* its file as it was written
ChaptersIntact ==
  /\ \A k \in 1..Len(chapters) : IsPrefix(pad2(k) \o <<"-">>, chapters[k].filename)
  /\ \A k \in 1..Len(chapters) : Len(pad2(k)) >= 2
  /\ \A j, k \in 1..Len(chapters) : j < k => chapters[j].filename # chapters[k].filename
  /\ \A k \in 1..Len(chapters) :
       /\ chapters[k].filename \in DOMAIN files
       /\ files[chapters[k].filename] = _chapter_template(chapters[k])

\* a step leaves the earlier chapters and every file that existed as they were
GrowsByAppending ==
  /\ Len(chapters') >= Len(chapters)
  /\ SubSeq(chapters', 1, Len(chapters)) = chapters
  /\ \A p \in DOMAIN files : p \in DOMAIN files' /\ files'[p] = files[p]

\* C10: the chapter list only grows by appending, the k-th filename starts
\* with the zero-padded k and "-", filenames are pairwise distinct even with
\* repeated titles, and no add_chapter overwrites an earlier chapter's file.
C10_ChapterFilesNeverOverwritten == []ChaptersIntact /\ [][GrowsByAppending]_vars

\* a title added twice, past the 100th chapter
C10_Witness ==
  /\ Len(chapters) > 100
  /\ chapters[Len(chapters)].title = chapters[Len(chapters) - 1].title
  /\ _slugify(chapters[Len(chapters)].title) = _slugify(chapters[Len(chapters) - 2].title)
  /\ chapters[Len(chapters)].title # chapters[Len(chapters) - 2].title

=============================================================================
